---- MODULE Spec2Model ----
(***************************************************************************)
(* Model of the INA226 driver (src/src/ina226.ts) and of the two example   *)
(* programs (src/examples/).                                               *)
(*                                                                         *)
(* JavaScript numbers are modelled as exact rationals [n, d] in lowest     *)
(* terms with d > 0 (an integer v is [n |-> v, d |-> 1]); the rounding of  *)
(* IEEE-754 doubles is not modelled.  Integers handed to the bit operators *)
(* stay inside the signed 32-bit range, where ToInt32 is the identity.     *)
(*                                                                         *)
(* The I2C transport (package i2c-bus) is the environment: it receives     *)
(* block transfers, and later completes each one either with an error or   *)
(* with success; on a successful read it has filled the Buffer it was      *)
(* handed and passes that same Buffer to the completion callback.          *)
(***************************************************************************)
EXTENDS Integers, Sequences, FiniteSets, TLC

----------------------------------------------------------------------------
(* Exact rational arithmetic standing for JavaScript number arithmetic.    *)

RECURSIVE GCD(_, _)
GCD(a, b) == IF b = 0 THEN a ELSE GCD(b, a % b)

Abs(x) == IF x < 0 THEN -x ELSE x

\* the rational n/d in lowest terms, d > 0
Rat(n, d) ==
  LET g == GCD(Abs(n), Abs(d))
      s == IF d < 0 THEN -1 ELSE 1
  IN  [n |-> s * (n \div g), d |-> s * (d \div g)]

Num(v) == [n |-> v, d |-> 1]

\* a * b, cancelling across before multiplying
NumMul(a, b) ==
  LET g1 == GCD(Abs(a.n), b.d)
      g2 == GCD(Abs(b.n), a.d)
      h1 == IF g1 = 0 THEN 1 ELSE g1
      h2 == IF g2 = 0 THEN 1 ELSE g2
  IN  Rat((a.n \div h1) * (b.n \div h2), (a.d \div h2) * (b.d \div h1))

\* a / b for b # 0 (the model never divides by zero: no rShunt in CtorArgs is 0)
NumDiv(a, b) == NumMul(a, [n |-> IF b.n < 0 THEN -b.d ELSE b.d, d |-> Abs(b.n)])

\* ToInt32 of an integer-valued number inside the 32-bit range
ToInt32(x) == x.n \div x.d

----------------------------------------------------------------------------
(* JavaScript's bit operators on 32-bit integers.                          *)

RECURSIVE BitAnd(_, _)
\* a & b for b >= 0; a negative a is read as two's complement
BitAnd(a, b) ==
  IF b = 0 THEN 0
  ELSE (a % 2) * (b % 2) + 2 * BitAnd(a \div 2, b \div 2)

RECURSIVE BitXor(_, _)
\* a ^ b for a, b >= 0
BitXor(a, b) ==
  IF a = 0 /\ b = 0 THEN 0
  ELSE (((a % 2) + (b % 2)) % 2) + 2 * BitXor(a \div 2, b \div 2)

\* a >> k : arithmetic shift, rounds towards minus infinity
ShiftRight(a, k) == a \div (2 ^ k)

RECURSIVE BitOr(_, _)
\* a | b for a, b >= 0
BitOr(a, b) ==
  IF a = 0 /\ b = 0 THEN 0
  ELSE (IF (a % 2) + (b % 2) > 0 THEN 1 ELSE 0) + 2 * BitOr(a \div 2, b \div 2)

\* a << k for results inside the 32-bit range
ShiftLeft(a, k) == a * (2 ^ k)

----------------------------------------------------------------------------
(* Exported constants of ina226.ts.                                        *)

CONFIGURATION_REGISTER == 0
SHUNT_VOLTAGE_REGISTER == 1
BUS_VOLTAGE_REGISTER == 2
CALIBRATION_REGISTER == 5

\* the members of CONFIG_AVERAGING, CONFIG_CONVERSION_TIME and CONFIG_MODE
\* the example uses
AVG16 == 2
CT_1_1ms == 4
SHUNT_AND_BUS_VOLTAGE_CONTINUOUS == 7

\* the other members of the three enumerations a configuration value can
\* decode to are the remaining values of 0..7; CT_140us is the one the
\* literal of ina226-example.ts carries in its bus conversion time field
CT_140us == 0

\* the Configuration Register's layout as the example documents it: the
\* field of the given width whose lowest bit is bit number low
ConfigField(value, low, width) == BitAnd(ShiftRight(value, low), (2 ^ width) - 1)

\* averaging in bits 11-9, bus conversion time in bits 8-6, shunt conversion
\* time in bits 5-3, operating mode in bits 2-0
DecodeConfig(value) ==
  [avg |-> ConfigField(value, 9, 3),
   busCT |-> ConfigField(value, 6, 3),
   shuntCT |-> ConfigField(value, 3, 3),
   mode |-> ConfigField(value, 0, 3)]

\* 0.0000025 V and 0.00125 V per count
SHUNT_VOLTAGE_LSB == Rat(1, 400000)
BUS_VOLTAGE_LSB == Rat(1, 800)

\* constructor's default for rShunt: 0.1 Ohm
DefaultRShunt == Rat(1, 10)

----------------------------------------------------------------------------
(* Bounds and the inputs the environment draws from.                       *)

\* read/write operations invoked on the instance in one behaviour
MaxOps == 2

\* (address, rShunt argument) pairs handed to the constructor; <<>> is an
\* omitted optional argument
CtorArgs == { <<64, <<>>>>, <<69, <<Rat(1, 2)>>>> }

\* (register, value) arguments of writeRegister: 0x11234 (above 16 bits, low
\* 16 bits 0x1234) and -2 (below 0, low 16 bits 0xFFFE)
WriteArgs == { <<CONFIGURATION_REGISTER, 70196>>, <<CALIBRATION_REGISTER, -2>> }

\* register arguments of readRegister (readBusVoltage and readShuntVoltage
\* read registers 2 and 1 through the same code)
ReadRegisters == {BUS_VOLTAGE_REGISTER}

\* byte pairs a device returns: 0x0960, 0x00C8, 0x8000, 0xFFFF
DeviceBytes == { <<9, 96>>, <<0, 200>>, <<128, 0>>, <<255, 255>> }

\* errors the transport reports
Errors == {"EIO", "ENXIO"}

\* optional voltage arguments of calcCurrent / calcPower
ShuntArgs == { <<>>, <<Num(0)>>, <<Rat(1, 1000)>> }
PowerArgs == { << <<>>, <<>> >>, << <<Num(12)>>, <<>> >>, << <<>>, <<Rat(1, 1000)>> >>,
               << <<Num(12)>>, <<Rat(1, 1000)>> >>, << <<Num(0)>>, <<>> >> }

----------------------------------------------------------------------------
VARIABLES
  address,       \* this._address
  rShunt,        \* this._rShunt
  busVoltage,    \* this._busVoltage
  shuntVoltage,  \* this._shuntVoltage
  ops,           \* the promises handed out, one record per operation invoked
  bus,           \* the block transfers the transport has received, in order
  lastOk,        \* per voltage, the index in ops of the read whose successful
                 \* completion ran most recently (0: none yet)
  ret,           \* what the calcCurrent / calcPower call just made returned
  pc             \* position of the example program ("lib": no program)

vars == <<address, rShunt, busVoltage, shuntVoltage, ops, bus, lastOk, ret, pc>>

----------------------------------------------------------------------------
(* Promises.  val is <<>> or <<v>>; err is "" (null) unless rejected.      *)

null == ""
Pending == [st |-> "pending", val |-> <<>>, err |-> null]
Resolved(v) == [st |-> "resolved", val |-> v, err |-> null]
Rejected(e) == [st |-> "rejected", val |-> <<>>, err |-> e]

NoRet == [fn |-> "none", args |-> <<>>, val |-> <<>>]

----------------------------------------------------------------------------
(* class INA226                                                            *)

\* constructor (i2cBus, address, rShunt = 0.1): the value of this._rShunt
Constructor(rShuntArg) == IF rShuntArg = <<>> THEN DefaultRShunt ELSE rShuntArg[1]

\* writeRegister with the two bytes stored in the opposite order
WriteRegisterBufLowFirst(value) ==
  << BitAnd(value, 255), BitAnd(ShiftRight(value, 8), 255) >>

\* writeRegister: buf[0] = (value >> 8) & 0xff; buf[1] = value & 0xff
WriteRegisterBuf(value) ==
  << BitAnd(ShiftRight(value, 8), 255), BitAnd(value, 255) >>

\* writeRegister's call of this._i2cBus.writeI2cBlock(address, register, 2, buf, cb)
\* appended to what the transport has received; s is [ops, bus]
writeRegister(s, register, value) ==
  [ops |-> Append(s.ops, [op |-> "writeRegister", args |-> <<register, value>>,
                          promise |-> Pending]),
   bus |-> Append(s.bus, [kind |-> "write", addr |-> address, cmd |-> register,
                          length |-> 2, buffer |-> WriteRegisterBuf(value),
                          op |-> Len(s.ops) + 1, st |-> "inflight", err |-> null])]

\* readRegister's call of this._i2cBus.readI2cBlock(address, register, 2, buf, cb)
\* with buf = Buffer.alloc(2); opname is the public operation the promise
\* belongs to
readRegister(s, opname, register) ==
  [ops |-> Append(s.ops, [op |-> opname,
                          args |-> IF opname = "readRegister" THEN <<register>> ELSE <<>>,
                          promise |-> Pending]),
   bus |-> Append(s.bus, [kind |-> "read", addr |-> address, cmd |-> register,
                          length |-> 2, buffer |-> <<0, 0>>,
                          op |-> Len(s.ops) + 1, st |-> "inflight", err |-> null])]

readBusVoltage(s) == readRegister(s, "readBusVoltage", BUS_VOLTAGE_REGISTER)

readShuntVoltage(s) == readRegister(s, "readShuntVoltage", SHUNT_VOLTAGE_REGISTER)

\* writeRegister's completion callback: if (err) reject(err) else resolve()
WriteRegisterCallback(err) ==
  IF err # null THEN Rejected(err) ELSE Resolved(<<>>)

\* readRegister's callback taking the second byte as the most significant
ReadRegisterValueLowFirst(buffer, buf) == buffer[2] * 256 + buf[1]

\* readRegister's callback: const value = buffer[0] * 256 + buf[1]
\* (buffer is the callback's argument, buf the Buffer readRegister allocated)
ReadRegisterValue(buffer, buf) == buffer[1] * 256 + buf[2]

\* readRegister's completion callback rejecting with an error of its own
ReadRegisterCallbackOwnError(err, buffer, buf) ==
  IF err # null THEN Rejected("read failed")
  ELSE Resolved(<<Num(ReadRegisterValue(buffer, buf))>>)

\* readRegister's completion callback
ReadRegisterCallback(err, buffer, buf) ==
  IF err # null THEN Rejected(err)
  ELSE Resolved(<<Num(ReadRegisterValue(buffer, buf))>>)

\* the decoding without its "subtract 1" step
ShuntVoltageSignedNoSubtract(raw) ==
  LET v == ToInt32(raw)
  IN  IF BitAnd(v, 32768) # 0
      THEN Num((-1) * BitXor(v, 65535))
      ELSE raw

\* readShuntVoltage's continuation up to the scaling: the two's complement
\* decoding of the raw value (subtract 1, invert bits, negate)
ShuntVoltageSigned(raw) ==
  LET v == ToInt32(raw)
  IN  IF BitAnd(v, 32768) # 0
      THEN Num((-1) * BitXor(v - 1, 65535))
      ELSE raw

ShuntVoltageOf(raw) == NumMul(ShuntVoltageSigned(raw), SHUNT_VOLTAGE_LSB)

\* readBusVoltage's continuation with the shunt register's sign decoding applied
BusVoltageOfSigned(raw) == NumMul(ShuntVoltageSigned(raw), BUS_VOLTAGE_LSB)

\* readBusVoltage's continuation: busVoltage * BUS_VOLTAGE_LSB
BusVoltageOf(raw) == NumMul(raw, BUS_VOLTAGE_LSB)

\* this._busVoltage when readRegister itself cached the bus register's value
NewBusVoltageInReadRegister(opname, p) ==
  IF opname \in {"readBusVoltage", "readRegister"} /\ p.st = "resolved"
  THEN BusVoltageOf(p.val[1]) ELSE busVoltage

\* this._busVoltage after the promise p of readRegister has settled for an
\* operation opname: assigned only in readBusVoltage's .then continuation
NewBusVoltage(opname, p) ==
  IF opname = "readBusVoltage" /\ p.st = "resolved"
  THEN BusVoltageOf(p.val[1]) ELSE busVoltage

\* this._shuntVoltage likewise, assigned only in readShuntVoltage's continuation
NewShuntVoltage(opname, p) ==
  IF opname = "readShuntVoltage" /\ p.st = "resolved"
  THEN ShuntVoltageOf(p.val[1]) ELSE shuntVoltage

\* the promise the public operation returned, once readRegister's / writeRegister's
\* own promise p has settled: .then(f) resolves with what f returns (the field
\* just assigned) and passes a rejection through
OuterPromise(opname, p, bv, sv) ==
  CASE opname = "readBusVoltage" /\ p.st = "resolved" -> Resolved(<<bv>>)
    [] opname = "readShuntVoltage" /\ p.st = "resolved" -> Resolved(<<sv>>)
    [] OTHER -> p

\* the default applied to every falsy argument (shuntVoltage || this._shuntVoltage)
ArgOrDefaultFalsy(arg, field) ==
  IF arg = <<>> THEN field ELSE IF arg[1].n = 0 THEN field ELSE arg[1]

\* a default parameter applies when the argument is undefined (omitted)
ArgOrDefault(arg, field) == IF arg = <<>> THEN field ELSE arg[1]

\* calcCurrent (shuntVoltage = this._shuntVoltage)
calcCurrent(shuntArg) ==
  NumDiv(ArgOrDefault(shuntArg, shuntVoltage), rShunt)

\* calcPower without the division by the shunt resistance
calcPowerNoDivision(busArg, shuntArg) ==
  NumMul(ArgOrDefault(busArg, busVoltage), ArgOrDefault(shuntArg, shuntVoltage))

\* calcPower (busVoltage = this._busVoltage, shuntVoltage = this._shuntVoltage)
calcPower(busArg, shuntArg) ==
  NumDiv(NumMul(ArgOrDefault(busArg, busVoltage),
                ArgOrDefault(shuntArg, shuntVoltage)), rShunt)

----------------------------------------------------------------------------
(* The transport's side of a transfer.                                     *)

\* the transfer log when a failed transfer is submitted once more
BusAfterCompletionRetry(t, err, bytes) ==
  LET done == [bus EXCEPT ![t].st = IF err # null THEN "err" ELSE "ok",
                          ![t].err = err,
                          ![t].buffer = IF bus[t].kind = "read" /\ err = null
                                        THEN bytes ELSE @]
  IN  IF err # null
      THEN Append(done, [bus[t] EXCEPT !.st = "inflight", !.err = null])
      ELSE done

\* the transfer log once transfer t has completed with err (null: success)
\* and, for a read, with bytes filled into the Buffer of the request
BusAfterCompletion(t, err, bytes) ==
  [bus EXCEPT ![t].st = IF err # null THEN "err" ELSE "ok",
              ![t].err = err,
              ![t].buffer = IF bus[t].kind = "read" /\ err = null
                            THEN bytes ELSE @]

\* the completion of transfer t when the continuation keeps a voltage only
\* if no later call of the same operation has been issued (issue order
\* deciding what is last observed)
SettleLatestIssuedOnly(t, err, bytes, p) ==
  LET i == bus[t].op
      stale == \E j \in (i + 1)..Len(ops) : ops[j].op = ops[i].op
      bv == IF stale THEN busVoltage ELSE NewBusVoltage(ops[i].op, p)
      sv == IF stale THEN shuntVoltage ELSE NewShuntVoltage(ops[i].op, p)
  IN  /\ bus' = BusAfterCompletion(t, err, bytes)
      /\ busVoltage' = bv
      /\ shuntVoltage' = sv
      /\ ops' = [ops EXCEPT ![i].promise =
                   OuterPromise(ops[i].op, p, NewBusVoltage(ops[i].op, p),
                                NewShuntVoltage(ops[i].op, p))]
      /\ lastOk' = IF p.st = "resolved" /\ ops[i].op \in DOMAIN lastOk
                   THEN [lastOk EXCEPT ![ops[i].op] = i] ELSE lastOk
      /\ ret' = NoRet
      /\ UNCHANGED <<address, rShunt, pc>>

\* the completion callback of transfer t runs: the promise of readRegister /
\* writeRegister settles as p; the continuation of readBusVoltage /
\* readShuntVoltage is a microtask and so runs before any other callback
Settle(t, err, bytes, p) ==
  LET i == bus[t].op
      bv == NewBusVoltage(ops[i].op, p)
      sv == NewShuntVoltage(ops[i].op, p)
  IN  /\ bus' = BusAfterCompletion(t, err, bytes)
      /\ busVoltage' = bv
      /\ shuntVoltage' = sv
      /\ ops' = [ops EXCEPT ![i].promise = OuterPromise(ops[i].op, p, bv, sv)]
      /\ lastOk' = IF p.st = "resolved" /\ ops[i].op \in DOMAIN lastOk
                   THEN [lastOk EXCEPT ![ops[i].op] = i] ELSE lastOk
      /\ ret' = NoRet
      /\ UNCHANGED <<address, rShunt, pc>>

----------------------------------------------------------------------------
(* Actions.                                                                *)

Init ==
  /\ \E c \in CtorArgs : address = c[1] /\ rShunt = Constructor(c[2])
  /\ busVoltage = Num(0)
  /\ shuntVoltage = Num(0)
  /\ ops = <<>>
  /\ bus = <<>>
  /\ lastOk = [readBusVoltage |-> 0, readShuntVoltage |-> 0]
  /\ ret = NoRet
  /\ pc = "lib"

Issue(s) ==
  /\ ops' = s.ops
  /\ bus' = s.bus
  /\ ret' = NoRet
  /\ UNCHANGED <<address, rShunt, busVoltage, shuntVoltage, lastOk, pc>>

CanInvoke == pc = "lib" /\ Len(ops) < MaxOps

Here == [ops |-> ops, bus |-> bus]

CallWriteRegister ==
  /\ CanInvoke
  /\ \E a \in WriteArgs : Issue(writeRegister(Here, a[1], a[2]))

CallReadRegister ==
  /\ CanInvoke
  /\ \E r \in ReadRegisters : Issue(readRegister(Here, "readRegister", r))

CallReadBusVoltage ==
  /\ CanInvoke
  /\ Issue(readBusVoltage(Here))

CallReadShuntVoltage ==
  /\ CanInvoke
  /\ Issue(readShuntVoltage(Here))

CallCalcCurrent ==
  /\ pc = "lib"
  /\ \E s \in ShuntArgs :
       ret' = [fn |-> "calcCurrent", args |-> <<s>>, val |-> <<calcCurrent(s)>>]
  /\ UNCHANGED <<address, rShunt, busVoltage, shuntVoltage, ops, bus, lastOk, pc>>

CallCalcPower ==
  /\ pc = "lib"
  /\ \E a \in PowerArgs :
       ret' = [fn |-> "calcPower", args |-> a, val |-> <<calcPower(a[1], a[2])>>]
  /\ UNCHANGED <<address, rShunt, busVoltage, shuntVoltage, ops, bus, lastOk, pc>>

\* the operation whose promise the example program's next continuation hangs
\* on (0: none)
Awaited ==
  CASE pc = "ts:chain" -> 4
    [] pc = "ts:power" -> 5
    [] pc \in {"js:1", "js:2", "js:3", "js:4", "js:5", "js:6"} ->
         CHOOSE k \in 1..6 : pc = <<"js:1", "js:2", "js:3", "js:4", "js:5", "js:6">>[k]
    [] OTHER -> 0

\* a continuation of the program is queued as a microtask; it runs before the
\* transport's next completion callback
MicrotaskPending ==
  \/ pc = "ts:thenReadBus"
  \/ Awaited # 0 /\ ops[Awaited].promise.st = "resolved"

InFlight(t) ==
  /\ ~MicrotaskPending
  /\ t \in 1..Len(bus) /\ bus[t].st = "inflight"

WriteOk ==
  \E t \in 1..Len(bus) :
    /\ InFlight(t) /\ bus[t].kind = "write"
    /\ Settle(t, null, bus[t].buffer, WriteRegisterCallback(null))

WriteFail ==
  \E t \in 1..Len(bus), e \in Errors :
    /\ InFlight(t) /\ bus[t].kind = "write"
    /\ Settle(t, e, bus[t].buffer, WriteRegisterCallback(e))

ReadOk ==
  \E t \in 1..Len(bus), bytes \in DeviceBytes :
    /\ InFlight(t) /\ bus[t].kind = "read"
    /\ Settle(t, null, bytes, ReadRegisterCallback(null, bytes, bytes))

ReadFail ==
  \E t \in 1..Len(bus), e \in Errors :
    /\ InFlight(t) /\ bus[t].kind = "read"
    /\ Settle(t, e, bus[t].buffer, ReadRegisterCallback(e, bus[t].buffer, bus[t].buffer))

Next ==
  \/ CallWriteRegister
  \/ CallReadRegister
  \/ CallReadBusVoltage
  \/ CallReadShuntVoltage
  \/ CallCalcCurrent
  \/ CallCalcPower
  \/ WriteOk
  \/ WriteFail
  \/ ReadOk
  \/ ReadFail

Spec == Init /\ [][Next]_vars

----------------------------------------------------------------------------
(* The example programs.                                                   *)

\* both examples: new INA226(i2cBus, addr, rShunt) with addr = 0x40 and
\* rShunt = 0.1; pc tells which program runs
InitExample ==
  /\ address = 64
  /\ rShunt = Constructor(<<Rat(1, 10)>>)
  /\ busVoltage = Num(0)
  /\ shuntVoltage = Num(0)
  /\ ops = <<>>
  /\ bus = <<>>
  /\ lastOk = [readBusVoltage |-> 0, readShuntVoltage |-> 0]
  /\ ret = NoRet
  /\ pc \in {"ts:main", "js:main"}

\* the program step: the driver calls it makes, what calc returned, where it
\* waits next
Step(s, r, next) ==
  /\ ops' = s.ops
  /\ bus' = s.bus
  /\ ret' = r
  /\ pc' = next
  /\ UNCHANGED <<address, rShunt, busVoltage, shuntVoltage, lastOk>>

AwaitedResolved == Awaited # 0 /\ ops[Awaited].promise.st = "resolved"

\* ina226-example.ts, the script's top level: the four calls are made one
\* after the other without waiting for any promise; only the continuations of
\* the fourth are chained
TsMain ==
  /\ pc = "ts:main"
  /\ Step(readShuntVoltage(readShuntVoltage(readBusVoltage(
             writeRegister(Here, CONFIGURATION_REGISTER, 17447)))),
          NoRet, "ts:chain")

\* .then(() => { let current = ina.calcCurrent(); ... })
TsThenCurrent ==
  /\ pc = "ts:chain" /\ AwaitedResolved
  /\ Step(Here, [fn |-> "calcCurrent", args |-> << <<>> >>,
                 val |-> <<calcCurrent(<<>>)>>], "ts:thenReadBus")

\* .then(ina.readBusVoltage.bind(ina))
TsThenReadBus ==
  /\ pc = "ts:thenReadBus"
  /\ Step(readBusVoltage(Here), NoRet, "ts:power")

\* .then(() => { let power = ina.calcPower(); ... })
TsThenPower ==
  /\ pc = "ts:power" /\ AwaitedResolved
  /\ Step(Here, [fn |-> "calcPower", args |-> << <<>>, <<>> >>,
                 val |-> <<calcPower(<<>>, <<>>)>>], "ts:done")

\* ina226-example.js: const configValue = (0b0100 << 12) | (AVG16 << 9) | ...
configValue ==
  BitOr(BitOr(BitOr(BitOr(ShiftLeft(4, 12), ShiftLeft(AVG16, 9)),
                    ShiftLeft(CT_1_1ms, 6)), ShiftLeft(CT_1_1ms, 3)),
        ShiftLeft(SHUNT_AND_BUS_VOLTAGE_CONTINUOUS, 0))

\* main up to its first await
JsMain ==
  /\ pc = "js:main"
  /\ Step(writeRegister(Here, CONFIGURATION_REGISTER, configValue), NoRet, "js:1")

\* after await ina.writeRegister(...): await ina.readBusVoltage()
JsAfterWrite ==
  /\ pc = "js:1" /\ AwaitedResolved
  /\ Step(readBusVoltage(Here), NoRet, "js:2")

\* after the bus voltage: await ina.readShuntVoltage()
JsAfterBus ==
  /\ pc = "js:2" /\ AwaitedResolved
  /\ Step(readShuntVoltage(Here), NoRet, "js:3")

\* after the shunt voltage: await ina.readShuntVoltage() once more
JsAfterShunt ==
  /\ pc = "js:3" /\ AwaitedResolved
  /\ Step(readShuntVoltage(Here), NoRet, "js:4")

\* const current = ina.calcCurrent(); then await ina.readShuntVoltage()
JsCurrent ==
  /\ pc = "js:4" /\ AwaitedResolved
  /\ Step(readShuntVoltage(Here),
          [fn |-> "calcCurrent", args |-> << <<>> >>, val |-> <<calcCurrent(<<>>)>>],
          "js:5")

\* await ina.readBusVoltage()
JsAfterShunt3 ==
  /\ pc = "js:5" /\ AwaitedResolved
  /\ Step(readBusVoltage(Here), NoRet, "js:6")

\* const power = ina.calcPower()
JsPower ==
  /\ pc = "js:6" /\ AwaitedResolved
  /\ Step(Here, [fn |-> "calcPower", args |-> << <<>>, <<>> >>,
                 val |-> <<calcPower(<<>>, <<>>)>>], "js:done")

NextExample ==
  \/ TsMain
  \/ TsThenCurrent
  \/ TsThenReadBus
  \/ TsThenPower
  \/ JsMain
  \/ JsAfterWrite
  \/ JsAfterBus
  \/ JsAfterShunt
  \/ JsCurrent
  \/ JsAfterShunt3
  \/ JsPower
  \/ WriteOk
  \/ WriteFail
  \/ ReadOk
  \/ ReadFail

SpecExample == InitExample /\ [][NextExample]_vars

----------------------------------------------------------------------------
(* Properties.                                                             *)

\* the 16-bit word made of the two bytes a read delivered, first byte high
Word(t) == 256 * bus[t].buffer[1] + bus[t].buffer[2]

OkReads(opname) ==
  { t \in 1..Len(bus) : bus[t].kind = "read" /\ bus[t].st = "ok"
                        /\ ops[bus[t].op].op = opname }

\* C1: a readRegister whose transfer delivered bytes (b0, b1) has resolved
\* with 256*b0 + b1, a value in 0..65535 whose high byte is b0 and low byte b1.
C1_ReadBigEndian ==
  \A t \in OkReads("readRegister") :
    LET p == ops[bus[t].op].promise
    IN  /\ bus[t].buffer[1] \in 0..255 /\ bus[t].buffer[2] \in 0..255
        /\ p = Resolved(<<Num(Word(t))>>)
        /\ p.val[1].n \div 256 = bus[t].buffer[1]
        /\ p.val[1].n % 256 = bus[t].buffer[2]

\* a readRegister resolved with 0x0960 = 2400 from the bytes (0x09, 0x60)
C1_Witness ==
  \E t \in OkReads("readRegister") :
    /\ bus[t].buffer = <<9, 96>>
    /\ ops[bus[t].op].promise.val = <<Num(2400)>>

\* C2: every writeRegister(register, value) has handed the transport one
\* write of length 2 at that register and the configured address whose payload
\* is [(value mod 65536) div 256, value mod 256]; no value is refused: the
\* promise is rejected only when the transport failed the transfer.
C2_WritePayload ==
  \A i \in 1..Len(ops) :
    ops[i].op = "writeRegister" =>
      \E t \in 1..Len(bus) :
        LET register == ops[i].args[1]
            value == ops[i].args[2]
        IN  /\ bus[t].op = i
            /\ bus[t].kind = "write"
            /\ bus[t].addr = address
            /\ bus[t].cmd = register
            /\ bus[t].length = 2
            /\ Len(bus[t].buffer) = 2
            /\ bus[t].buffer = << (value % 65536) \div 256, value % 256 >>
            /\ (ops[i].promise.st = "rejected" => bus[t].st = "err")

\* a write of 0x11234, outside 16 bits, went out as [0x12, 0x34], and a write
\* of -2 as [0xFF, 0xFE]
C2_Witness ==
  /\ \E t \in 1..Len(bus) :
       /\ bus[t].kind = "write" /\ ops[bus[t].op].args[2] = 70196
       /\ bus[t].buffer = <<18, 52>> /\ bus[t].st = "ok"
  /\ \E t \in 1..Len(bus) :
       /\ bus[t].kind = "write" /\ ops[bus[t].op].args[2] = -2
       /\ bus[t].buffer = <<255, 254>>

\* s counts of 2.5 microvolts
MicroVolts2_5(s) == Rat(s * 25, 10000000)

\* r counts of 1.25 millivolts
MilliVolts1_25(r) == Rat(r * 125, 100000)

\* C3: a readShuntVoltage whose transfer delivered the raw value r has
\* resolved with s * 2.5 uV, s = r below 32768 and r - 65536 from 32768 on,
\* never a positive value when the most significant bit is set.
C3_ShuntTwosComplement ==
  \A t \in OkReads("readShuntVoltage") :
    LET r == Word(t)
        s == IF r < 32768 THEN r ELSE r - 65536
        p == ops[bus[t].op].promise
    IN  /\ p = Resolved(<<MicroVolts2_5(s)>>)
        /\ (r >= 32768 => p.val[1].n < 0)

\* 0xFFFF was read as -1 count and 0x8000 as -32768 counts
C3_Witness ==
  /\ \E t \in OkReads("readShuntVoltage") :
       Word(t) = 65535 /\ ops[bus[t].op].promise.val = <<Rat(-1, 400000)>>
  /\ \E t \in OkReads("readShuntVoltage") :
       Word(t) = 32768 /\ ops[bus[t].op].promise.val = <<Rat(-8192, 100000)>>

FailedTransfers == { t \in 1..Len(bus) : bus[t].st = "err" }

\* C4: an operation whose transfer the transport failed with error e has its
\* promise rejected with e and not resolved, and the step in which the failure
\* is delivered changes neither last-observed voltage.
C4_ErrorPropagation ==
  /\ [](\A t \in FailedTransfers :
          /\ bus[t].err \in Errors
          /\ ops[bus[t].op].promise = Rejected(bus[t].err))
  /\ [][ (\E t \in 1..Len(bus) : bus[t].st = "inflight" /\ bus'[t].st = "err")
         => /\ busVoltage' = busVoltage
            /\ shuntVoltage' = shuntVoltage ]_vars

\* a readBusVoltage failed with ENXIO after an earlier one had succeeded: its
\* promise is rejected with ENXIO and the field still holds the earlier value
C4_Witness ==
  /\ busVoltage # Num(0)
  /\ \E t \in FailedTransfers :
       /\ ops[bus[t].op].op = "readBusVoltage"
       /\ lastOk.readBusVoltage < bus[t].op
       /\ ops[bus[t].op].promise = Rejected("ENXIO")

\* the value last returned by a successful read of the given kind, 0 if none
LastReturned(opname) ==
  IF lastOk[opname] = 0 THEN Num(0) ELSE ops[lastOk[opname]].promise.val[1]

Succeeded(opname) ==
  { i \in 1..Len(ops) : ops[i].op = opname /\ ops[i].promise.st = "resolved" }

\* C5: the last-observed bus voltage is 0 while no readBusVoltage has
\* succeeded and otherwise the value returned by the readBusVoltage whose
\* completion ran last; likewise the shunt voltage with readShuntVoltage.
C5_LastObserved ==
  /\ \A k \in {"readBusVoltage", "readShuntVoltage"} :
       /\ (lastOk[k] = 0) <=> (Succeeded(k) = {})
       /\ lastOk[k] # 0 => lastOk[k] \in Succeeded(k)
  /\ busVoltage = LastReturned("readBusVoltage")
  /\ shuntVoltage = LastReturned("readShuntVoltage")

\* two readBusVoltage calls returned different values and the field holds
\* the value of the one that completed last, the shunt voltage still being 0
C5_Witness ==
  \E i \in Succeeded("readBusVoltage"), j \in Succeeded("readBusVoltage") :
    /\ i # j
    /\ lastOk.readBusVoltage = j
    /\ ops[i].promise.val # ops[j].promise.val
    /\ busVoltage = ops[j].promise.val[1]
    /\ shuntVoltage = Num(0)

\* the voltage a calc call works with: the argument when one was given
Chosen(arg, field) == IF Len(arg) = 1 THEN arg[1] ELSE field

\* C6: calcPower returns busVoltage * shuntVoltage / rShunt and calcCurrent
\* shuntVoltage / rShunt, each voltage being the argument when given (0
\* included) and the last-observed value when omitted; the call leaves the
\* fields, the promises and the transfer log as they were.
C6_CalcDefaults ==
  /\ [](/\ ret.fn = "calcCurrent" =>
             ret.val = <<NumDiv(Chosen(ret.args[1], shuntVoltage), rShunt)>>
        /\ ret.fn = "calcPower" =>
             ret.val = <<NumDiv(NumMul(Chosen(ret.args[1], busVoltage),
                                       Chosen(ret.args[2], shuntVoltage)), rShunt)>>)
  /\ [][ ret'.fn # "none"
         => UNCHANGED <<address, rShunt, busVoltage, shuntVoltage, ops, bus>> ]_vars

\* calcPower(0) with both fields non-zero returned 0
C6_Witness ==
  /\ busVoltage.n # 0 /\ shuntVoltage.n # 0
  /\ ret.fn = "calcPower"
  /\ ret.args = << <<Num(0)>>, <<>> >>
  /\ ret.val = <<Num(0)>>

\* the scenario of C7: address 0x40, shunt resistance 0.1 Ohm, the last
\* successful readBusVoltage got [0x09, 0x60], the last readShuntVoltage
\* [0x00, 0xC8]
TransferOf(i) == CHOOSE t \in 1..Len(bus) : bus[t].op = i

C7_Scenario ==
  /\ address = 64 /\ rShunt = Rat(1, 10)
  /\ lastOk.readBusVoltage # 0 /\ lastOk.readShuntVoltage # 0
  /\ bus[TransferOf(lastOk.readBusVoltage)].buffer = <<9, 96>>
  /\ bus[TransferOf(lastOk.readShuntVoltage)].buffer = <<0, 200>>

C7_Readings ==
  /\ ops[lastOk.readBusVoltage].promise.val = <<Num(3)>>
  /\ ops[lastOk.readShuntVoltage].promise.val = <<Rat(5, 10000)>>

\* C7 as claimed: in the scenario calcCurrent() yields 0.005 A and
\* calcPower() yields 0.0015 W.
C7_AsClaimed ==
  C7_Scenario =>
    /\ C7_Readings
    /\ ret.fn = "calcCurrent" /\ ret.args = << <<>> >> => ret.val = <<Rat(5, 1000)>>
    /\ ret.fn = "calcPower" /\ ret.args = << <<>>, <<>> >> => ret.val = <<Rat(15, 10000)>>

\* C7 amended: in the scenario the readings are 3.0 V and 0.0005 V,
\* calcCurrent() yields 0.005 A and calcPower() yields 0.015 W
\* (3.0 * 0.0005 / 0.1).
C7_EndToEnd ==
  C7_Scenario =>
    /\ C7_Readings
    /\ ret.fn = "calcCurrent" /\ ret.args = << <<>> >> => ret.val = <<Rat(5, 1000)>>
    /\ ret.fn = "calcPower" /\ ret.args = << <<>>, <<>> >> => ret.val = <<Rat(15, 1000)>>

\* calcPower() was called in the scenario and returned 0.015
C7_Witness ==
  /\ C7_Scenario
  /\ ret = [fn |-> "calcPower", args |-> << <<>>, <<>> >>, val |-> <<Rat(3, 200)>>]

\* C8: every read/write operation invoked has exactly one transfer in the
\* transport's log, of its kind, whatever the transfer's outcome, and the log
\* holds nothing else: construction and the calc calls add none.
C8_OneTransferPerOperation ==
  /\ Len(bus) = Len(ops)
  /\ \A i \in 1..Len(ops) :
       /\ Cardinality({ t \in 1..Len(bus) : bus[t].op = i }) = 1
       /\ bus[TransferOf(i)].kind =
            (IF ops[i].op = "writeRegister" THEN "write" ELSE "read")
  /\ \A t \in 1..Len(bus) : bus[t].op \in 1..Len(ops)

\* a failed read and a failed write, nothing in flight, after a calc call
C8_Witness ==
  /\ Len(ops) = 2
  /\ \A t \in 1..Len(bus) : bus[t].st = "err"
  /\ \E t \in 1..Len(bus) : bus[t].kind = "read"
  /\ \E t \in 1..Len(bus) : bus[t].kind = "write"
  /\ ret.fn = "calcPower"

\* C9: a readBusVoltage reads register 0x02 and, when its transfer delivered
\* the raw value r, has resolved with r * 1.25 mV, never negative; the
\* last-observed bus voltage is the value of the readBusVoltage resolved last.
C9_BusUnsigned ==
  /\ \A t \in 1..Len(bus) :
       ops[bus[t].op].op = "readBusVoltage" =>
         bus[t].kind = "read" /\ bus[t].cmd = 2 /\ bus[t].addr = address
  /\ \A t \in OkReads("readBusVoltage") :
       LET p == ops[bus[t].op].promise
       IN  /\ p = Resolved(<<MilliVolts1_25(Word(t))>>)
           /\ p.val[1].n >= 0
           /\ lastOk.readBusVoltage = bus[t].op => busVoltage = p.val[1]

\* 0xFFFF was read as 81.91875 V and is the last-observed bus voltage
C9_Witness ==
  \E t \in OkReads("readBusVoltage") :
    /\ Word(t) = 65535
    /\ ops[bus[t].op].promise.val = <<Rat(8191875, 100000)>>
    /\ busVoltage = Rat(8191875, 100000)

\* the example's transfers the transport has received and not yet completed
PendingTransfers == { t \in 1..Len(bus) : bus[t].st = "inflight" }

\* C10: in each example program at most one transfer is in flight at any
\* time, and a transfer is submitted only when every earlier one has completed.
C10_ExamplesSequential ==
  /\ Cardinality(PendingTransfers) <= 1
  /\ \A t \in PendingTransfers : \A u \in 1..(t - 1) : bus[u].st # "inflight"

\* the 16-bit values the examples have written to the Configuration Register,
\* as the transport received them
ConfigWrites ==
  { Word(t) : t \in { u \in 1..Len(bus) : bus[u].kind = "write"
                                        /\ bus[u].cmd = CONFIGURATION_REGISTER } }

\* 16 averages, 1.1 ms conversion time for bus and shunt, shunt and bus continuous
IntendedConfig ==
  [avg |-> AVG16, busCT |-> CT_1_1ms, shuntCT |-> CT_1_1ms,
   mode |-> SHUNT_AND_BUS_VOLTAGE_CONTINUOUS]

\* C11: the value each example writes to the Configuration Register decodes,
\* under the documented layout, to AVG16, CT_1_1ms for the bus field, CT_1_1ms
\* for the shunt field and SHUNT_AND_BUS_VOLTAGE_CONTINUOUS; the composed value
\* is 0x4527.
C11_ConfigDecodes ==
  /\ configValue = 17703
  /\ DecodeConfig(configValue) = IntendedConfig
  /\ \A v \in ConfigWrites : DecodeConfig(v) = IntendedConfig

\* the voltage the driver is to make of the raw word r of a voltage read
VoltageOf(opname, r) ==
  IF opname = "readBusVoltage" THEN MilliVolts1_25(r)
  ELSE MicroVolts2_5(IF r < 32768 THEN r ELSE r - 65536)

Field(opname) == IF opname = "readBusVoltage" THEN busVoltage ELSE shuntVoltage

\* the voltage reads whose promise resolves in the step
Completing(opname) ==
  { i \in 1..Len(ops) : /\ ops[i].op = opname
                        /\ ops[i].promise.st = "pending"
                        /\ ops'[i].promise.st = "resolved" }

\* C12: with several readBusVoltage (or readShuntVoltage) calls in flight and
\* completed in any order, each promise has resolved with the value of the
\* bytes of its own transfer, and the last-observed field is the value of the
\* read whose completion ran last: each completion overwrites the field with
\* its own value, whatever the order in which the calls were issued.
C12_CompletionOrder ==
  /\ [](\A k \in {"readBusVoltage", "readShuntVoltage"} :
          /\ \A t \in OkReads(k) :
               ops[bus[t].op].promise = Resolved(<<VoltageOf(k, Word(t))>>)
          /\ lastOk[k] # 0 =>
               Field(k) = VoltageOf(k, Word(TransferOf(lastOk[k]))))
  /\ [][ \A k \in {"readBusVoltage", "readShuntVoltage"} :
           \A i \in Completing(k) :
             /\ lastOk'[k] = i
             /\ Field(k)' = ops'[i].promise.val[1] ]_vars

\* two readBusVoltage calls overlapped: the second one issued completed first
\* with 0x8000 (40.96 V), the first one issued completed after it with 0x0960
\* (3 V), and the field holds the 3 V of the call issued first
C12_Witness ==
  /\ Len(ops) >= 2
  /\ ops[1].op = "readBusVoltage" /\ ops[2].op = "readBusVoltage"
  /\ ops[2].promise = Resolved(<<Rat(4096, 100)>>)
  /\ ops[1].promise = Resolved(<<Num(3)>>)
  /\ lastOk.readBusVoltage = 1
  /\ bus[TransferOf(1)].buffer = <<9, 96>>
  /\ bus[TransferOf(2)].buffer = <<128, 0>>
  /\ busVoltage = Num(3)

====
